---- MODULE Spec2Model ----
(***************************************************************************)
(* The GraphQL route of src/routes/graphql/index.ts: the POST handler      *)
(* (parse, depth guard, per-request context, execution), the resolver      *)
(* graph (root lookups, relational fields delegating to batch loaders, the *)
(* users resolver's selective prefetch and priming) and the tick-by-tick   *)
(* execution of one or more concurrent requests against a read-only store. *)
(***************************************************************************)
EXTENDS Integers, Sequences, FiniteSets, TLC

\* Number of requests the server receives in one behaviour.
MaxRequests == 2

\* depthLimit(5), index.ts line 243.
DepthLimit == 5

Requests == 1..MaxRequests

\* ctx[r] before a context has been built for request r.
NoCtx == 0

(***************************************************************************)
(* The store (read-only).  Objects are named by their ids.                 *)
(***************************************************************************)
UserIds == {"u1", "u2"}
PostIds == {"p1"}
ProfileIds == {"pr1"}
\* Rows of the member-type table; the enum also admits "business".
MemberTypes == {"basic"}

PostAuthor == [p \in PostIds |-> "u1"]
ProfileUser == [p \in ProfileIds |-> "u2"]
ProfileTier == [p \in ProfileIds |-> "basic"]

\* Subscription edges <<subscriberId, authorId>> the store may hold.
EdgeUniverse == {<<"u1", "u2">>, <<"u2", "u1">>}

\* MemberTypeId enum values, index.ts lines 25-31.
typeMembersID == {"basic", "business"}

Keys == UserIds \cup typeMembersID

(***************************************************************************)
(* Queries.  A field node is [name, alias, arg, sel]; a document is the    *)
(* sequence of root fields of its single operation; the request body       *)
(* carries the query text, which either parses to a document or not.       *)
(***************************************************************************)
F(name, alias, arg, sel) == [name |-> name, alias |-> alias, arg |-> arg, sel |-> sel]
N(name, sel) == F(name, name, "none", sel)
Leaf(name) == N(name, <<>>)
Body(wellFormed, doc) == [wellFormed |-> wellFormed, doc |-> doc]

QPlain == Body(TRUE, <<N("users", <<Leaf("id")>>)>>)
QSubs == Body(TRUE, <<N("users", <<Leaf("id"), N("subscribedToUser", <<Leaf("id")>>)>>)>>)
QBoth == Body(TRUE, <<N("users", <<N("userSubscribedTo", <<Leaf("id")>>),
                                   N("subscribedToUser", <<Leaf("id")>>)>>)>>)
QAlias == Body(TRUE, <<N("users", <<F("subscribedToUser", "subs", "none", <<Leaf("id")>>)>>)>>)
QCollide == Body(TRUE, <<N("users", <<F("id", "subscribedToUser", "none", <<>>)>>)>>)
QNested == Body(TRUE, <<N("users", <<N("subscribedToUser",
                          <<N("userSubscribedTo", <<Leaf("id")>>)>>)>>)>>)
QTwoLevels == Body(TRUE, <<F("user", "user", "u1",
                     <<N("posts", <<Leaf("id")>>),
                       N("userSubscribedTo", <<N("posts", <<Leaf("id")>>)>>)>>)>>)
QRace == Body(TRUE, <<F("user", "user", "u1", <<N("subscribedToUser", <<Leaf("id")>>)>>),
                      N("users", <<N("subscribedToUser", <<Leaf("id")>>)>>)>>)
QNoTier == Body(TRUE, <<F("memberType", "memberType", "business", <<Leaf("id")>>)>>)
QBadEnum == Body(TRUE, <<F("memberType", "memberType", "nonexistent-tier", <<Leaf("id")>>)>>)
QNotFound == Body(TRUE, <<F("user", "user", "u0", <<Leaf("id")>>),
                          F("post", "post", "p0", <<Leaf("id")>>),
                          F("profile", "profile", "pr0", <<Leaf("id")>>),
                          N("memberTypes", <<Leaf("id")>>)>>)
QSiblings == Body(TRUE, <<N("users", <<Leaf("id"), N("posts", <<N("author", <<Leaf("id")>>)>>)>>),
                          N("memberTypes", <<Leaf("id")>>)>>)
QProfiles == Body(TRUE, <<N("profiles", <<N("memberType", <<Leaf("id")>>),
                                          N("user", <<N("profile", <<Leaf("id")>>)>>)>>),
                          N("posts", <<Leaf("title")>>)>>)
QDepth5 == Body(TRUE, <<N("users", <<N("posts", <<N("author", <<N("posts",
                    <<N("author", <<Leaf("id")>>)>>)>>)>>)>>)>>)
QDepth6 == Body(TRUE, <<N("users", <<N("posts", <<N("author", <<N("posts",
                    <<N("author", <<N("profile", <<Leaf("id")>>)>>)>>)>>)>>)>>)>>)
QIntrospect == Body(TRUE, <<N("__schema", <<N("types", <<N("fields", <<N("type",
                    <<N("ofType", <<N("ofType", <<N("ofType", <<Leaf("name")>>)>>)>>)>>)>>)>>)>>)>>)
QMalformed == Body(FALSE, <<>>)

Queries == {QPlain, QSubs, QBoth, QAlias, QCollide, QNested, QTwoLevels, QRace,
            QNoTier, QBadEnum, QNotFound, QSiblings, QProfiles, QDepth5, QDepth6,
            QIntrospect, QMalformed}

(***************************************************************************)
(* The schema (index.ts lines 33-225).                                     *)
(***************************************************************************)
Loaders == {"fetchUsersById", "fetchMemberTypesById", "fetchPostsByUserId",
            "fetchProfilesByUserId", "fetchSubscriptionsToUser", "fetchUserSubscriptions"}

LoaderSeq == <<"fetchUsersById", "fetchMemberTypesById", "fetchPostsByUserId",
               "fetchProfilesByUserId", "fetchSubscriptionsToUser", "fetchUserSubscriptions">>

EdgeLoaders == {"fetchSubscriptionsToUser", "fetchUserSubscriptions"}

Def(type, list, nonNull, loader, key) ==
    [type |-> type, list |-> list, nonNull |-> nonNull, loader |-> loader, key |-> key]

Scalar == Def("Scalar", FALSE, TRUE, "none", "none")

\* The fields of the object types Post, Profile and User: the type a field
\* returns, whether it is a list, whether it is declared non-null, and for a
\* relational field the loader its resolver delegates to and the parent
\* attribute it passes as the key.
FieldDef(type, name) ==
    CASE type = "Post" /\ name = "author" ->
            Def("User", FALSE, TRUE, "fetchUsersById", "authorId")
      [] type = "Profile" /\ name = "memberType" ->
            Def("MemberType", FALSE, TRUE, "fetchMemberTypesById", "memberTypeId")
      [] type = "Profile" /\ name = "user" ->
            Def("User", FALSE, TRUE, "fetchUsersById", "userId")
      [] type = "User" /\ name = "posts" ->
            Def("Post", TRUE, TRUE, "fetchPostsByUserId", "id")
      [] type = "User" /\ name = "profile" ->
            Def("Profile", FALSE, FALSE, "fetchProfilesByUserId", "id")
      [] type = "User" /\ name = "subscribedToUser" ->
            Def("User", TRUE, TRUE, "fetchSubscriptionsToUser", "id")
      [] type = "User" /\ name = "userSubscribedTo" ->
            Def("User", TRUE, TRUE, "fetchUserSubscriptions", "id")
      [] OTHER -> Scalar

\* A mis-wired resolver graph: the two edge fields delegate to each other's loader.
LoaderOfSwapped(type, name) ==
    CASE type = "User" /\ name = "subscribedToUser" -> "fetchUserSubscriptions"
      [] type = "User" /\ name = "userSubscribedTo" -> "fetchSubscriptionsToUser"
      [] OTHER -> FieldDef(type, name).loader

\* The loader a relational field's resolver calls load on ("none" for a scalar).
LoaderOf(type, name) == FieldDef(type, name).loader

\* The attribute of the parent object src that a resolver passes to load.
Attr(src, key) ==
    CASE key = "authorId" -> PostAuthor[src]
      [] key = "userId" -> ProfileUser[src]
      [] key = "memberTypeId" -> ProfileTier[src]
      [] OTHER -> src

KeyOf(type, name, src) == Attr(src, FieldDef(type, name).key)

\* The root fields of RootQuery: the entity read, find-many or find-unique,
\* and the declared nullability of the field.
RootDef(name) ==
    CASE name = "memberTypes" -> Def("MemberType", TRUE, TRUE, "none", "none")
      [] name = "memberType" -> Def("MemberType", FALSE, TRUE, "none", "id")
      [] name = "posts" -> Def("Post", TRUE, TRUE, "none", "none")
      [] name = "post" -> Def("Post", FALSE, FALSE, "none", "id")
      [] name = "users" -> Def("User", TRUE, TRUE, "none", "none")
      [] name = "user" -> Def("User", FALSE, FALSE, "none", "id")
      [] name = "profiles" -> Def("Profile", TRUE, TRUE, "none", "none")
      [] OTHER -> Def("Profile", FALSE, FALSE, "none", "id")

SingularRoots == {"memberType", "post", "user", "profile"}

\* Names beginning with two underscores (the introspection fields).
IsIntrospection(name) == name \in {"__schema", "__type", "__typename"}

\* graphql()'s own validation of the document against the schema: the only
\* rule the queries of this model can break is an enum argument outside
\* MemberTypeId.
SchemaValid(doc) ==
    \A i \in 1..Len(doc) : doc[i].name = "memberType" => doc[i].arg \in typeMembersID

(***************************************************************************)
(* The depth guard: validate(schema, parse(query), [depthLimit(5)]).       *)
(***************************************************************************)
\* A ceiling test that is off by one.
ExceedsDepthOffByOne(depthSoFar) == depthSoFar >= DepthLimit

ExceedsDepth(depthSoFar) == depthSoFar > DepthLimit

\* The errors the depth rule reports below one node reached at depthSoFar:
\* a node deeper than the ceiling is reported; the rule does not descend
\* into a field without a selection set nor into an introspection field.
RECURSIVE DepthErrors(_, _)
DepthErrors(node, depthSoFar) ==
    IF ExceedsDepth(depthSoFar)
    THEN {[field |-> node.name, depth |-> depthSoFar]}
    ELSE IF IsIntrospection(node.name) \/ node.sel = <<>>
         THEN {}
         ELSE UNION {DepthErrors(node.sel[i], depthSoFar + 1) : i \in 1..Len(node.sel)}

Validate(doc) == UNION {DepthErrors(doc[i], 0) : i \in 1..Len(doc)}

(***************************************************************************)
(* parseResolveInfo + simplify: the fields requested under a node, keyed   *)
(* by response key (the alias when there is one, else the field name).     *)
(***************************************************************************)
Fields(node) == {node.sel[i].alias : i \in 1..Len(node.sel)}

(***************************************************************************)
(* State.                                                                  *)
(***************************************************************************)
VARIABLES
    edges,   \* the store's subscription edges <<subscriberId, authorId>>
    pc,      \* per request: "idle", "executing", "done" (a result was returned), "threw"
    query,   \* per request: the body's query
    ctx,     \* per request: the loader set of its contextValue (NoCtx: none built)
    cache,   \* per loader set, loader and key: the loader's cache entry
    pend,    \* per request: the field resolutions suspended on a load
    calls,   \* per request: the store calls issued, in order, each with its outcome
    errs,    \* per request: the field errors collected so far
    resp,    \* per request: the result the handler returned
    primed,  \* per request: the prime calls the users resolver made
    loads,   \* per request: the load calls the relational resolvers made
    ran      \* per request: the paths whose resolver was invoked

vars == <<edges, pc, query, ctx, cache, pend, calls, errs, resp, primed, loads, ran>>

(***************************************************************************)
(* The store adapter.                                                      *)
(***************************************************************************)
EntityIds(entity) ==
    CASE entity = "User" -> UserIds
      [] entity = "Post" -> PostIds
      [] entity = "Profile" -> ProfileIds
      [] OTHER -> MemberTypes

FindMany(entity) == EntityIds(entity)

\* findUnique({ where: { id } }): the record, or null (the empty set).
FindUnique(entity, id) == IF id \in EntityIds(entity) THEN {id} ELSE {}

\* The relation rows find-many joins to user u when include asks for them.
SubscribedToUserRows(u) == {e \in edges : e[2] = u}
UserSubscribedToRows(u) == {e \in edges : e[1] = u}

(***************************************************************************)
(* The batch loaders.                                                      *)
(***************************************************************************)
NoEntry == [st |-> "none", val |-> {}, by |-> 0]

\* initializeDataLoaders(prisma): six loaders with empty caches.
EmptyLoaders == [l \in Loaders |-> [k \in Keys |-> NoEntry]]

\* What a loader's many-key fetch resolves one key to.
BatchResult(l, key) ==
    CASE l = "fetchUsersById" -> FindUnique("User", key)
      [] l = "fetchMemberTypesById" -> FindUnique("MemberType", key)
      [] l = "fetchPostsByUserId" -> {p \in PostIds : PostAuthor[p] = key}
      [] l = "fetchProfilesByUserId" -> {p \in ProfileIds : ProfileUser[p] = key}
      [] l = "fetchSubscriptionsToUser" -> {e[1] : e \in SubscribedToUserRows(key)}
      [] OTHER -> {e[2] : e \in UserSubscribedToRows(key)}

\* prime(key, value): seeds the cache unless the key is already cached or in flight.
Prime(c, l, key, val, r) ==
    IF c[l][key].st = "none"
    THEN [c EXCEPT ![l][key] = [st |-> "ok", val |-> val, by |-> r]]
    ELSE c

\* load(key) on a resolved key is a cache hit.
LoadHit(c, l, key) == c[l][key].st = "ok"

\* load(key) on a key neither cached nor in flight joins the next batch.
LoadFresh(c, l, key) == c[l][key].st = "none"

\* indexBy(users, user => user.id)[id]
UsersMapGet(users, id) == IF id \in users THEN id ELSE "undefined"

(***************************************************************************)
(* The execution engine: field completion and error propagation.           *)
(***************************************************************************)
\* A field error: where it occurred and the position it nulls (<<>>: data).
Err(path, kind, nulls) == [path |-> path, kind |-> kind, nulls |-> nulls]

\* The position an error of a field nulls: the field itself when it is
\* nullable, else whatever its parent's error would null.
NullTarget(def, path, parentUp) == IF def.nonNull THEN parentUp ELSE path

\* Completing a resolved value against the field's declared type.
CompleteErrs(path, def, objs, up) ==
    IF (~def.list /\ def.nonNull /\ objs = {}) \/ (def.list /\ "undefined" \in objs)
    THEN {Err(path, "nonnull", up)}
    ELSE {}

\* The child fields the engine resolves once the items of a frontier have
\* resolved to objects: one per object and selected field.
Kids(frontier) ==
    UNION {UNION {{[path |-> it.path \o <<o, it.node.sel[i].alias>>,
                    node |-> it.node.sel[i], ptype |-> it.type, src |-> o, pup |-> it.up]
                   : i \in 1..Len(it.node.sel)}
                  : o \in it.objs \ {"undefined"}}
           : it \in frontier}

KidDef(k) == FieldDef(k.ptype, k.node.name)
KidLoader(k) == LoaderOf(k.ptype, k.node.name)
KidKey(k) == KeyOf(k.ptype, k.node.name, k.src)
KidUp(k) == NullTarget(KidDef(k), k.path, k.pup)

Suspended(k) == [path |-> k.path, node |-> k.node, ptype |-> k.ptype, src |-> k.src,
                 pup |-> k.pup, loader |-> KidLoader(k), key |-> KidKey(k)]

LoadRec(r, k, c) ==
    [path |-> k.path, name |-> k.node.name, loader |-> KidLoader(k), key |-> KidKey(k),
     hit |-> LoadHit(c, KidLoader(k), KidKey(k)), val |-> c[KidLoader(k)][KidKey(k)].val,
     by |-> c[KidLoader(k)][KidKey(k)].by]

\* One synchronous stretch of execution: the relational children of the
\* frontier call load; hits resolve at once and their own children follow
\* in the same stretch; misses suspend, fresh keys joining the loader's
\* current batch.
RECURSIVE Round(_, _, _)
Round(frontier, t, r) ==
    LET kids == {k \in Kids(frontier) : KidLoader(k) # "none"}
        hit == {k \in kids : LoadHit(t.cache, KidLoader(k), KidKey(k))}
        miss == kids \ hit
        fresh == {<<KidLoader(k), KidKey(k)>> :
                     k \in {m \in miss : LoadFresh(t.cache, KidLoader(m), KidKey(m))}}
        next == {[path |-> k.path, node |-> k.node, type |-> KidDef(k).type,
                  objs |-> t.cache[KidLoader(k)][KidKey(k)].val, up |-> KidUp(k)] : k \in hit}
        t2 == [t EXCEPT
                 !.cache = [l \in Loaders |-> [key \in Keys |->
                              IF <<l, key>> \in fresh
                              THEN [st |-> "pending", val |-> {}, by |-> r]
                              ELSE t.cache[l][key]]],
                 !.pend = t.pend \cup {Suspended(k) : k \in miss},
                 !.errs = t.errs \cup UNION {CompleteErrs(k.path, KidDef(k),
                                               t.cache[KidLoader(k)][KidKey(k)].val, KidUp(k)) : k \in hit},
                 !.queue = t.queue \cup fresh,
                 !.loads = t.loads \cup {LoadRec(r, k, t.cache) : k \in kids},
                 !.ran = t.ran \cup {k.path : k \in kids}]
    IN  IF kids = {} THEN t ELSE Round(next, t2, r)

(***************************************************************************)
(* The resolvers of RootQuery.                                             *)
(***************************************************************************)
RootPath(node) == <<node.alias>>

RootUp(node) == NullTarget(RootDef(node.name), RootPath(node), <<>>)

needsSubscriptions(node) == "subscribedToUser" \in Fields(node)

needsFollowers(node) == "userSubscribedTo" \in Fields(node)

NoInclude == [subscribedToUser |-> FALSE, userSubscribedTo |-> FALSE]

Call(kind, path, entity, loader, keys, include) ==
    [kind |-> kind, path |-> path, entity |-> entity, loader |-> loader, keys |-> keys,
     include |-> include, st |-> "pending"]

\* The store call a root resolver issues when it is invoked.
RootCall(node) ==
    IF node.name = "users"
    THEN Call("findMany", RootPath(node), "User", "none", {},
              [subscribedToUser |-> needsSubscriptions(node),
               userSubscribedTo |-> needsFollowers(node)])
    ELSE IF RootDef(node.name).list
         THEN Call("findMany", RootPath(node), RootDef(node.name).type, "none", {}, NoInclude)
         ELSE Call("findUnique", RootPath(node), RootDef(node.name).type, "none",
                   {node.arg}, NoInclude)

RootResult(node) ==
    IF RootDef(node.name).list
    THEN FindMany(RootDef(node.name).type)
    ELSE FindUnique(RootDef(node.name).type, node.arg)

\* The prime calls of the users resolver once its find-many has returned
\* users: for every user, per requested direction (first: no load of the
\* key was made on that loader before).
PrimeRecs(node, users, ls) ==
    {[root |-> RootPath(node), dir |-> "subscribedToUser", loader |-> "fetchSubscriptionsToUser",
      key |-> u, val |-> {UsersMapGet(users, e[1]) : e \in SubscribedToUserRows(u)},
      first |-> ~\E ld \in ls : ld.loader = "fetchSubscriptionsToUser" /\ ld.key = u]
       : u \in {x \in users : needsSubscriptions(node)}}
    \cup
    {[root |-> RootPath(node), dir |-> "userSubscribedTo", loader |-> "fetchUserSubscriptions",
      key |-> u, val |-> {UsersMapGet(users, e[2]) : e \in UserSubscribedToRows(u)},
      first |-> ~\E ld \in ls : ld.loader = "fetchUserSubscriptions" /\ ld.key = u]
       : u \in {x \in users : needsFollowers(node)}}

\* The loader caches after those prime calls (their keys are distinct per loader).
PrimeAll(c, recs, r) ==
    [l \in Loaders |-> [k \in Keys |->
        IF \E p \in recs : p.loader = l /\ p.key = k
        THEN LET p == CHOOSE x \in recs : x.loader = l /\ x.key = k
             IN  Prime(c, l, k, p.val, r)[l][k]
        ELSE c[l][k]]]

RECURSIVE FindRoot(_, _, _)
FindRoot(doc, path, i) ==
    IF RootPath(doc[i]) = path THEN doc[i] ELSE FindRoot(doc, path, i + 1)

\* The stretch of execution that follows the return of a root resolver's
\* store call: the users resolver primes, then the value is completed and
\* the children are resolved.
RootReturned(r, call, t) ==
    LET node == FindRoot(query[r].doc, call.path, 1)
        def == RootDef(node.name)
        objs == RootResult(node)
        recs == IF node.name = "users" /\ (needsSubscriptions(node) \/ needsFollowers(node))
                THEN PrimeRecs(node, objs, t.loads) ELSE {}
        t1 == [t EXCEPT !.cache = PrimeAll(t.cache, recs, r),
                        !.primed = t.primed \cup recs,
                        !.errs = t.errs \cup CompleteErrs(call.path, def, objs, RootUp(node))]
    IN  Round({[path |-> call.path, node |-> node, type |-> def.type, objs |-> objs,
                up |-> RootUp(node)]}, t1, r)

RootFailed(r, call, t) ==
    LET node == FindRoot(query[r].doc, call.path, 1)
    IN  [t EXCEPT !.errs = t.errs \cup {Err(call.path, "fetch", RootUp(node))}]

\* The stretch that follows the return of a loader's many-key fetch: every
\* key of the batch resolves, and the fields suspended on them resume.
BatchReturned(r, call, t) ==
    LET waiting == {p \in t.pend : p.loader = call.loader /\ p.key \in call.keys}
        t1 == [t EXCEPT
                 !.cache = [t.cache EXCEPT ![call.loader] = [k \in Keys |->
                              IF k \in call.keys
                              THEN [st |-> "ok", val |-> BatchResult(call.loader, k), by |-> r]
                              ELSE t.cache[call.loader][k]]],
                 !.pend = t.pend \ waiting,
                 !.errs = t.errs \cup UNION {CompleteErrs(p.path, KidDef(p),
                                               BatchResult(p.loader, p.key), KidUp(p)) : p \in waiting}]
    IN  Round({[path |-> p.path, node |-> p.node, type |-> KidDef(p).type,
                objs |-> BatchResult(p.loader, p.key), up |-> KidUp(p)] : p \in waiting}, t1, r)

\* A failed many-key fetch: every load of the batch rejects and its keys
\* leave the cache.
BatchFailed(r, call, t) ==
    LET waiting == {p \in t.pend : p.loader = call.loader /\ p.key \in call.keys}
    IN  [t EXCEPT
           !.cache = [t.cache EXCEPT ![call.loader] = [k \in Keys |->
                        IF k \in call.keys THEN NoEntry ELSE t.cache[call.loader][k]]],
           !.pend = t.pend \ waiting,
           !.errs = t.errs \cup {Err(p.path, "fetch", KidUp(p)) : p \in waiting}]

\* The many-key fetches dispatched at the end of a stretch: one per loader
\* with keys queued.
NewBatches(queue) ==
    LET ls == SelectSeq(LoaderSeq, LAMBDA l : \E q \in queue : q[1] = l)
    IN  [i \in 1..Len(ls) |->
            Call("batch", <<>>, "-", ls[i], {q[2] : q \in {x \in queue : x[1] = ls[i]}}, NoInclude)]

\* The execution result: data is null when an error reached the root.
Result(es) ==
    [data |-> IF \E e \in es : e.nulls = <<>> THEN "null" ELSE "object", errors |-> es]

NoResult == [data |-> "none", errors |-> {}]

(***************************************************************************)
(* The POST handler (index.ts lines 240-255) and the continuations of the  *)
(* execution it awaits.                                                    *)
(***************************************************************************)
\* A server that builds the loaders once and shares them between requests.
SharedLoaderSet(r) == 1

\* contextValue: { prisma, ...initializeDataLoaders(prisma) }, built in the
\* handler: one loader set per request.
ContextLoaderSet(r) == r

Init ==
    /\ edges \in SUBSET EdgeUniverse
    /\ pc = [r \in Requests |-> "idle"]
    /\ query = [r \in Requests |-> QMalformed]
    /\ ctx = [r \in Requests |-> NoCtx]
    /\ cache = [s \in Requests |-> EmptyLoaders]
    /\ pend = [r \in Requests |-> {}]
    /\ calls = [r \in Requests |-> <<>>]
    /\ errs = [r \in Requests |-> {}]
    /\ resp = [r \in Requests |-> NoResult]
    /\ primed = [r \in Requests |-> {}]
    /\ loads = [r \in Requests |-> {}]
    /\ ran = [r \in Requests |-> {}]

\* parse(query) throws on malformed syntax; nothing in the handler catches it.
HandlerParseThrows(r, q) ==
    /\ ~q.wellFormed
    /\ pc' = [pc EXCEPT ![r] = "threw"]
    /\ UNCHANGED <<edges, ctx, cache, pend, calls, errs, resp, primed, loads, ran>>

\* The depth rule reported errors: the handler returns them with data null.
HandlerDepthRejected(r, q) ==
    /\ q.wellFormed
    /\ Validate(q.doc) # {}
    /\ pc' = [pc EXCEPT ![r] = "done"]
    /\ resp' = [resp EXCEPT ![r] =
                  [data |-> "null",
                   errors |-> {Err(<<e.field>>, "depth", <<>>) : e \in Validate(q.doc)}]]
    /\ UNCHANGED <<edges, ctx, cache, pend, calls, errs, primed, loads, ran>>

\* graphql() rejects a document that breaks the schema's validation rules:
\* errors and no data.  The context was built before the call.
HandlerInvalid(r, q) ==
    /\ q.wellFormed
    /\ Validate(q.doc) = {}
    /\ ~SchemaValid(q.doc)
    /\ ctx' = [ctx EXCEPT ![r] = ContextLoaderSet(r)]
    /\ cache' = [cache EXCEPT ![ContextLoaderSet(r)] = EmptyLoaders]
    /\ pc' = [pc EXCEPT ![r] = "done"]
    /\ resp' = [resp EXCEPT ![r] = [data |-> "absent", errors |-> {Err(<<>>, "validation", <<>>)}]]
    /\ UNCHANGED <<edges, pend, calls, errs, primed, loads, ran>>

\* graphql() starts execution: every root resolver is invoked and issues its
\* store call; an introspection field resolves without the store.
HandlerExecutes(r, q) ==
    /\ q.wellFormed
    /\ Validate(q.doc) = {}
    /\ SchemaValid(q.doc)
    /\ ctx' = [ctx EXCEPT ![r] = ContextLoaderSet(r)]
    /\ cache' = [cache EXCEPT ![ContextLoaderSet(r)] = EmptyLoaders]
    /\ LET roots == SelectSeq(q.doc, LAMBDA n : ~IsIntrospection(n.name))
       IN  /\ calls' = [calls EXCEPT ![r] = [i \in 1..Len(roots) |-> RootCall(roots[i])]]
           /\ ran' = [ran EXCEPT ![r] = {RootPath(roots[i]) : i \in 1..Len(roots)}]
           /\ pc' = [pc EXCEPT ![r] = IF roots = <<>> THEN "done" ELSE "executing"]
           /\ resp' = [resp EXCEPT ![r] = IF roots = <<>> THEN Result({}) ELSE NoResult]
    /\ UNCHANGED <<edges, pend, errs, primed, loads>>

\* The handler on a request whose body is drawn from the queries qs.
HandlerOn(r, qs) ==
    \E q \in qs :
        /\ pc[r] = "idle"
        /\ query' = [query EXCEPT ![r] = q]
        /\ \/ HandlerParseThrows(r, q)
           \/ HandlerDepthRejected(r, q)
           \/ HandlerInvalid(r, q)
           \/ HandlerExecutes(r, q)

Handler(r) == HandlerOn(r, Queries)

TickOf(r) ==
    [cache |-> cache[ctx[r]], pend |-> pend[r], errs |-> errs[r], queue |-> {},
     loads |-> loads[r], ran |-> ran[r], primed |-> primed[r]]

\* The state after one stretch of execution of request r: store call i has
\* its outcome, the batches queued during the stretch are dispatched, and
\* when no store call is outstanding the result is returned.
Commit(r, i, outcome, t) ==
    LET cs == [calls[r] EXCEPT ![i].st = outcome] \o NewBatches(t.queue)
        over == \A j \in 1..Len(cs) : cs[j].st # "pending"
    IN  /\ calls' = [calls EXCEPT ![r] = cs]
        /\ cache' = [cache EXCEPT ![ctx[r]] = t.cache]
        /\ pend' = [pend EXCEPT ![r] = t.pend]
        /\ errs' = [errs EXCEPT ![r] = t.errs]
        /\ loads' = [loads EXCEPT ![r] = t.loads]
        /\ ran' = [ran EXCEPT ![r] = t.ran]
        /\ primed' = [primed EXCEPT ![r] = t.primed]
        /\ pc' = [pc EXCEPT ![r] = IF over THEN "done" ELSE "executing"]
        /\ resp' = [resp EXCEPT ![r] = IF over THEN Result(t.errs) ELSE NoResult]
        /\ UNCHANGED <<edges, query, ctx>>

\* A store call of request r returns its rows.
StoreReturn(r) ==
    \E i \in 1..Len(calls[r]) :
        /\ pc[r] = "executing"
        /\ calls[r][i].st = "pending"
        /\ Commit(r, i, "ok",
                  IF calls[r][i].kind = "batch"
                  THEN BatchReturned(r, calls[r][i], TickOf(r))
                  ELSE RootReturned(r, calls[r][i], TickOf(r)))

\* A store call of request r fails.
StoreFail(r) ==
    \E i \in 1..Len(calls[r]) :
        /\ pc[r] = "executing"
        /\ calls[r][i].st = "pending"
        /\ Commit(r, i, "failed",
                  IF calls[r][i].kind = "batch"
                  THEN BatchFailed(r, calls[r][i], TickOf(r))
                  ELSE RootFailed(r, calls[r][i], TickOf(r)))

\* One request served on its own, with any query of the catalogue.
Next == Handler(1) \/ StoreReturn(1) \/ StoreFail(1)

Spec == Init /\ [][Next]_vars

\* The queries of the requests that are served concurrently.
ConcurrentQueries == {QSubs, QAlias, QNested, QTwoLevels, QBadEnum, QDepth6, QMalformed}

\* MaxRequests requests in flight together, their continuations interleaved.
NextConcurrent ==
    \E r \in Requests : HandlerOn(r, ConcurrentQueries) \/ StoreReturn(r) \/ StoreFail(r)

SpecConcurrent == Init /\ [][NextConcurrent]_vars

(***************************************************************************)
(* Measures and views used by the properties.                              *)
(***************************************************************************)
Max(S) == CHOOSE x \in S : \A y \in S : y <= x

\* The nesting depth of the selections below a node (a root field is at 0).
RECURSIVE NodeDepth(_)
NodeDepth(n) ==
    IF n.sel = <<>> THEN 0 ELSE 1 + Max({NodeDepth(n.sel[i]) : i \in 1..Len(n.sel)})

QueryDepth(doc) == Max({NodeDepth(doc[i]) : i \in 1..Len(doc)})

\* The same, not counting what lies below an introspection field.
RECURSIVE CountedDepth(_)
CountedDepth(n) ==
    IF n.sel = <<>> \/ IsIntrospection(n.name)
    THEN 0
    ELSE 1 + Max({CountedDepth(n.sel[i]) : i \in 1..Len(n.sel)})

QueryCountedDepth(doc) == Max({CountedDepth(doc[i]) : i \in 1..Len(doc)})

Parsed(r) == pc[r] # "idle" /\ query[r].wellFormed

\* The handler returned the depth error and did nothing else.
Rejected(r) ==
    /\ pc[r] = "done"
    /\ resp[r].data = "null"
    /\ resp[r].errors # {}
    /\ ran[r] = {}
    /\ ctx[r] = NoCtx
    /\ calls[r] = <<>>

RelationNames == {"subscribedToUser", "userSubscribedTo"}

\* Whether a relation field is selected, by name, anywhere below a node.
RECURSIVE Mentions(_)
Mentions(n) ==
    \E i \in 1..Len(n.sel) : n.sel[i].name \in RelationNames \/ Mentions(n.sel[i])

BatchesOf(r, l) == {i \in 1..Len(calls[r]) : calls[r][i].kind = "batch" /\ calls[r][i].loader = l}

\* The store calls of request r that carry subscription-relation data.
RelationCalls(r) ==
    {i \in 1..Len(calls[r]) :
        \/ calls[r][i].kind = "batch" /\ calls[r][i].loader \in EdgeLoaders
        \/ calls[r][i].include.subscribedToUser
        \/ calls[r][i].include.userSubscribedTo}

FailedCalls(r) == {i \in 1..Len(calls[r]) : calls[r][i].st = "failed"}

IsPrefix(p, q) == Len(p) <= Len(q) /\ SubSeq(q, 1, Len(p)) = p

(***************************************************************************)
(* Properties.                                                             *)
(***************************************************************************)

\* C1 (as stated): for every parsed query, nesting depth at most 5 means
\* graphql() is called; nesting depth above 5 means the handler returns data
\* null with a non-empty errors list and runs no resolver, builds no loader
\* set and issues no store call.
C1_DepthGuardAsClaimed ==
    \A r \in Requests :
        Parsed(r) =>
            /\ QueryDepth(query[r].doc) <= DepthLimit => ctx[r] # NoCtx
            /\ QueryDepth(query[r].doc) > DepthLimit => Rejected(r)

\* C1 (amended): the same with the depth measured as the depth rule measures
\* it, selections below an introspection field not being counted.
C1_DepthGuard ==
    \A r \in Requests :
        Parsed(r) =>
            /\ QueryCountedDepth(query[r].doc) <= DepthLimit => ctx[r] # NoCtx
            /\ QueryCountedDepth(query[r].doc) > DepthLimit => Rejected(r)

\* C1 witness: a request whose query has counted depth 6 was rejected.
C1_Witness ==
    \E r \in Requests :
        /\ Parsed(r)
        /\ QueryCountedDepth(query[r].doc) = DepthLimit + 1
        /\ Rejected(r)

\* C2 (as stated): a users query that requests userSubscribedTo or
\* subscribedToUser makes exactly one store call for relation data, the
\* find-many of the users resolver; no edge loader ever fetches.
C2_SinglePrefetchAsClaimed ==
    \A r \in Requests :
        (/\ pc[r] = "done"
         /\ Len(calls[r]) > 0
         /\ FailedCalls(r) = {}
         /\ Len(query[r].doc) = 1
         /\ query[r].doc[1].name = "users"
         /\ Mentions(query[r].doc[1]))
        => /\ Cardinality(RelationCalls(r)) = 1
           /\ \A i \in RelationCalls(r) : calls[r][i].kind = "findMany"

\* C3 (as stated): a users query that requests neither relation field issues
\* a find-many with both includes false, primes nothing and fetches no
\* relation edge.
C3_NoPrefetchAsClaimed ==
    \A r \in Requests :
        (/\ pc[r] \in {"executing", "done"}
         /\ Len(calls[r]) > 0
         /\ \A i \in 1..Len(query[r].doc) : ~Mentions(query[r].doc[i])
         /\ \E i \in 1..Len(query[r].doc) : query[r].doc[i].name = "users")
        => /\ RelationCalls(r) = {}
           /\ primed[r] = {}

C5_PrimedLoadIsHit ==
    \A r \in Requests : \A p \in primed[r] :
        p.first =>
            /\ \A ld \in loads[r] :
                  (ld.name = p.dir /\ ld.key = p.key)
                      => ld.hit /\ ld.val = p.val /\ ld.loader = p.loader
            /\ \A i \in BatchesOf(r, p.loader) : p.key \notin calls[r][i].keys

\* C5 witness: a finished execution in which a key primed first with a
\* non-empty list was then loaded by its edge field and hit.
C5_Witness ==
    \E r \in Requests : \E p \in primed[r] : \E ld \in loads[r] :
        /\ p.first
        /\ ld.name = p.dir
        /\ ld.key = p.key
        /\ ld.hit
        /\ ld.val = p.val
        /\ p.val # {}
        /\ pc[r] = "done"

\* C6 (as stated): a singular root lookup whose id matches no record leaves
\* null in data and no error in the response.
C6_NotFoundAsClaimed ==
    \A r \in Requests :
        (/\ pc[r] = "done"
         /\ Parsed(r)
         /\ SchemaValid(query[r].doc)
         /\ FailedCalls(r) = {}
         /\ \E i \in 1..Len(query[r].doc) :
               /\ query[r].doc[i].name \in SingularRoots
               /\ RootResult(query[r].doc[i]) = {})
        => resp[r].data = "object" /\ resp[r].errors = {}

\* C7 (as stated): when the only store calls that fail are loader fetches,
\* every field that awaited a failed fetch has an error at its path, and
\* every root field with no error below it is present in data, which is
\* therefore not null as a whole.
C7_PartialResultAsClaimed ==
    \A r \in Requests :
        (/\ pc[r] = "done"
         /\ FailedCalls(r) # {}
         /\ \A i \in FailedCalls(r) : calls[r][i].kind = "batch")
        => /\ \A i \in FailedCalls(r) : \E e \in resp[r].errors : e.kind = "fetch"
           /\ \A i \in 1..Len(query[r].doc) :
                 (~\E e \in resp[r].errors : IsPrefix(RootPath(query[r].doc[i]), e.path))
                     => /\ resp[r].data = "object"
                        /\ ~\E e \in resp[r].errors :
                               IsPrefix(e.nulls, RootPath(query[r].doc[i]))

\* C8 (as stated): a request whose query is malformed gets a returned result
\* with errors and no data, and execution never starts.
C8_MalformedAsClaimed ==
    \A r \in Requests :
        (pc[r] # "idle" /\ ~query[r].wellFormed)
        => /\ pc[r] = "done"
           /\ resp[r].errors # {}
           /\ resp[r].data \in {"null", "absent"}
           /\ calls[r] = <<>>
           /\ ran[r] = {}

\* C9: no two requests share a loader set, every cache entry of a request's
\* loaders was loaded or primed by that request, and every cache hit of a
\* request is on an entry of its own.
C9_LoadersPerRequest ==
    /\ \A r1, r2 \in Requests :
          (r1 # r2 /\ ctx[r1] # NoCtx /\ ctx[r2] # NoCtx) => ctx[r1] # ctx[r2]
    /\ \A r \in Requests : \A l \in Loaders : \A k \in Keys :
          (ctx[r] # NoCtx /\ cache[ctx[r]][l][k].st # "none") => cache[ctx[r]][l][k].by = r
    /\ \A r \in Requests : \A ld \in loads[r] : ld.hit => ld.by = r

\* C9 witness: two requests with contexts, the first holding a resolved key
\* it has hit, the second having missed the same key of the same loader.
C9_Witness ==
    \E r1, r2 \in Requests : \E l \in Loaders : \E k \in Keys :
        /\ r1 # r2
        /\ ctx[r1] # NoCtx /\ ctx[r2] # NoCtx
        /\ cache[ctx[r1]][l][k].st = "ok"
        /\ pc[r1] = "executing"
        /\ \E ld \in loads[r2] : ld.loader = l /\ ld.key = k /\ ~ld.hit
        /\ \E ld \in loads[r1] : ld.loader = l /\ ld.key = k /\ ld.hit

\* C10 (as stated): every value the users resolver primes is exactly the
\* subscribers (for subscribedToUser) or the authors (for userSubscribedTo)
\* of that user, all of them defined users, and a loader is primed only when
\* its direction's field is requested under users.
C10_PrefetchAsClaimed ==
    \A r \in Requests : \A p \in primed[r] :
        /\ p.val = (IF p.dir = "subscribedToUser"
                    THEN {e[1] : e \in {x \in edges : x[2] = p.key}}
                    ELSE {e[2] : e \in {x \in edges : x[1] = p.key}})
        /\ p.val \subseteq UserIds
        /\ p.loader = LoaderOf("User", p.dir)
        /\ LET node == FindRoot(query[r].doc, p.root, 1)
           IN  \E i \in 1..Len(node.sel) : node.sel[i].name = p.dir

====
